---- MODULE Spec2Model ----
(***************************************************************************)
(* State-machine model of static/js/dashboard.js: the client-side request  *)
(* and render pipeline of the business-intelligence dashboard (bulk load,  *)
(* debounced filter-apply, comparison-load, chart cache, on-demand chart   *)
(* and map fetches).                                                       *)
(*                                                                         *)
(* JavaScript runs one task at a time.  Every action below is one task of  *)
(* the event loop (a DOM event handler, a timer callback, or the           *)
(* continuation of an await when the awaited promise settles).  A promise  *)
(* rejected synchronously by AbortController.abort() resumes its awaiter   *)
(* in a microtask, i.e. before any further task: the queue `microtasks`    *)
(* holds these continuations and every task waits until it is empty.       *)
(***************************************************************************)
EXTENDS Integers, Sequences, FiniteSets, TLC

(* ------------------------------ bounds -------------------------------- *)
\* A run is explored in one of several environments (see Environments): each
\* says which controls the user operates, which failures the backend shows and
\* how many requests of each class are issued before the exploration stops.
\* /api/dashboard requests issued in a run of the filter environment
MaxDash == 3
\* /api/comparison requests issued in a run of the comparison environment
MaxComp == 2
\* /api/comparison requests issued in a run of the period environment
MaxPeriodComp == 1
\* /api/dashboard and /api/comparison requests issued in a run of the environment
\* in which only the reset button is operated
MaxResetDash == 2
MaxResetComp == 1
\* bulk loads started in a run of the load environment
MaxLoads == 2
\* /api/dashboard requests issued in a run of the load environment
MaxLoadDash == 2
\* on-demand /api/charts/{type} and /api/map requests issued in a run of the
\* chart environment, and /api/dashboard requests issued in it
MaxChartReqs == 2
MaxChartDash == 2
\* /api/dashboard and /api/comparison requests issued in a run of the environment
\* in which both the filter and the comparison controls are operated
MaxSharedDash == 2
MaxSharedComp == 1
\* the amounts formatted in a run of the format environment lie within this many
\* paise of a boundary of formatCurrency
FormatRadius == 3
\* /api/dashboard requests issued in a run of the badge environment
MaxBadgeDash == 3

(* ------------------------- program constants -------------------------- *)
\* loadData retries while retryCount < 3
MaxRetries == 3
\* index of the last entry of loadData's `messages` array
LastMessage == 2

Null == 0
NoValue == "null"

ChartTypes == {"monthly", "rbm", "map"}
\* the chart types renderChart has a branch for
RenderableTypes == {"monthly", "hierarchy", "geographic", "product", "rbm"}
\* key sets of the `charts` object a /api/dashboard response may carry
BundleKeySets == {{"monthly", "rbm"}, {"monthly", "map"}}

MultiSelects == {"states", "districts", "rbms", "bdms", "branches", "brands"}
CompMultiSelects == {"states", "rbms", "branches", "brands"}
\* the multi-select controls the modelled user operates
UsedMultiSelects == {"states"}
UsedCompMultiSelects == {"states"}
PeriodTypes == {"", "year", "fy", "quarter"}
UsedPeriodTypes == {"", "year"}
ComparisonTypes == {"year", "fy", "quarter"}
Dimensions == {"Overall", "State"}

\* `options` objects a successful /api/load response may carry
Options1 ==
    [years |-> <<"2025", "2024">>, financial_years |-> <<"FY25", "FY24">>,
     quarters |-> <<"Q1", "Q2">>,
     states |-> {"KL"}, districts |-> {"EKM"}, rbms |-> {"R1"},
     bdms |-> {"B1"}, branches |-> {"BR1"}, brands |-> {"X"}]
OptionSets == {Options1}
\* filterOptions = {} before the first successful load
NoOptions ==
    [years |-> <<>>, financial_years |-> <<>>, quarters |-> <<>>,
     states |-> {}, districts |-> {}, rbms |-> {},
     bdms |-> {}, branches |-> {}, brands |-> {}]

Range(s) == {s[i] : i \in DOMAIN s}

VARIABLES
    \* module-level state (lines 5-11, 392)
    dataLoaded, filterOptions, currentMode, activeChart,
    filterDebounceTimer, pendingRequest, cachedChartData,
    \* filter controls of the page
    periodType, year, fy, quarter, multi, subHidden,
    \* comparison controls of the page
    comparisonType, period1, period2, periodOptions, comparisonDimension, compMulti,
    \* what the single view shows
    kpis, insights, dataTable, periodBadge, activeFilters,
    chartDisplay, mapMarkers, filterLoading, chartLoading,
    \* what the comparison view shows
    comparisonView, comparisonLoading,
    \* bulk-load chrome
    refreshBtnDisabled, loadingOverlayHidden, loadingMessage,
    welcomeHidden, dashboardHidden,
    \* the platform: timers, abort controllers, requests in flight
    timers, aborted, dashReqs, dashIssued, microtasks,
    compReqs, compIssued, chartReqs, chartIssued, loads, exportsInFlight,
    \* the toast shown last (showToast, lines 230-239), "none" before the first
    toast,
    \* the argument of a call of formatCurrency, in paise, and the text it returned
    amount, formatted,
    \* history of the run, read by the properties only
    hist,
    \* the environment of the run
    env

globalVars == <<dataLoaded, filterOptions, currentMode, activeChart>>
ctlVars == <<periodType, year, fy, quarter, multi, subHidden>>
cmpCtlVars == <<comparisonType, period1, period2, periodOptions, comparisonDimension,
               compMulti>>
dashViewVars == <<kpis, insights, dataTable, periodBadge, activeFilters>>
chartVars == <<chartDisplay, mapMarkers, chartLoading>>
cmpViewVars == <<comparisonView, comparisonLoading>>
loadUiVars == <<refreshBtnDisabled, loadingOverlayHidden, loadingMessage,
                welcomeHidden, dashboardHidden>>
timerVars == <<timers, filterDebounceTimer>>
dashNetVars == <<pendingRequest, aborted, dashReqs, dashIssued, microtasks>>
cmpNetVars == <<compReqs, compIssued>>
chartNetVars == <<chartReqs, chartIssued>>
formatVars == <<amount, formatted>>

vars == <<globalVars, ctlVars, cmpCtlVars, dashViewVars, chartVars, cmpViewVars,
          loadUiVars, timerVars, dashNetVars, cmpNetVars, chartNetVars,
          cachedChartData, filterLoading, loads, exportsInFlight, toast, formatVars,
          hist, env>>

(* --------------------------- pure helpers ------------------------------ *)
\* a string or array from the DOM that JavaScript treats as true
Truthy(v) == v # "" /\ v # NoValue

\* $(select).val(v): the option is selected when the select has it; with no
\* such option nothing is selected and val() reads null
SelectVal(v, optionValues) == IF v \in optionValues THEN v ELSE NoValue

NoSeries == [origin |-> "none", req |-> 0, type |-> ""]
Series(origin, r, t) == [origin |-> origin, req |-> r, type |-> t]

getFilters(pt, y, f, q, m) ==
    [period_type |-> pt, year |-> y, fy |-> f, quarter |-> q,
     states |-> m["states"], districts |-> m["districts"], rbms |-> m["rbms"],
     bdms |-> m["bdms"], branches |-> m["branches"], brands |-> m["brands"]]

CurrentFilters == getFilters(periodType, year, fy, quarter, multi)

\* updateStatus: the text of #periodBadge
PeriodBadgeOf(filters) ==
    LET p0 == <<"All Time">>
        p1 == IF Truthy(filters.year) /\ filters.period_type = "year"
              THEN <<filters.year>> ELSE p0
        p2 == IF Truthy(filters.fy) THEN <<filters.fy>> ELSE p1
        p3 == IF Truthy(filters.quarter) /\ Truthy(filters.year)
              THEN <<filters.quarter, filters.year>> ELSE p2
    IN  p3

\* updateStatus: the text of #activeFilters, as the (control, count) pairs it lists
ActiveFiltersOf(filters) ==
    {<<c, Cardinality(filters[c])>> : c \in {d \in MultiSelects : filters[d] # {}}}

\* renderChart: the plot drawn into #chartDisplay, or its "No data available"
renderChart(chartType, chartData) ==
    IF chartType \in RenderableTypes /\ chartData # NoSeries
    THEN [kind |-> "plot", type |-> chartType, series |-> chartData]
    ELSE [kind |-> "nodata", type |-> "", series |-> NoSeries]

\* renderIndiaMap: the markers on the map after the call
renderIndiaMap(mapData) == mapData

\* a cache that would keep the slots the new bundle lacks
CacheMerge(cache, charts) ==
    [t \in DOMAIN cache \cup DOMAIN charts |->
        IF t \in DOMAIN charts THEN charts[t] ELSE cache[t]]

\* line 440: what `cachedChartData = data.charts` leaves in the cache
CacheReplace(cache, charts) == charts

\* a cache lookup that would never find a slot
CacheMiss(cache, t) == NoSeries

\* lines 535 and 548: the slot read by the truthiness test, NoSeries for a slot
\* that is missing
CacheGet(cache, t) == IF t \in DOMAIN cache THEN cache[t] ELSE NoSeries

EmptyCache == [t \in {} |-> NoSeries]

\* the body of a successful /api/dashboard response to request r
DashboardBody(r, keys, withInsights) ==
    [kpis |-> r, insights |-> IF withInsights THEN r ELSE 0,
     charts |-> [t \in keys |-> Series("dashboard", r, t)], table |-> r]

\* populateComparisonPeriods: the values of #period1 and #period2 afterwards
ComparisonPeriodOptions(type, options) ==
    IF type = "year" THEN [i \in DOMAIN options.years |-> <<options.years[i]>>]
    ELSE IF type = "fy"
    THEN [i \in DOMAIN options.financial_years |-> <<options.financial_years[i]>>]
    ELSE IF type = "quarter"
    THEN LET ny == Len(options.years)
             nq == Len(options.quarters)
         IN  [i \in 1..(ny * nq) |->
                 <<options.years[((i - 1) \div nq) + 1],
                   options.quarters[((i - 1) % nq) + 1]>>]
    ELSE <<>>

populateComparisonPeriods(type, options) ==
    LET opts == ComparisonPeriodOptions(type, options)
        first == IF Len(opts) >= 1 THEN opts[1] ELSE <<>>
    IN  IF type \in {"year", "fy"} /\ Len(opts) >= 2
        THEN [period1 |-> opts[2], period2 |-> opts[1]]
        ELSE [period1 |-> first, period2 |-> first]

(* ------------------------ timers and debouncing ------------------------ *)
TimerIds(ts) == {t.id : t \in ts}

\* setTimeout returns an id no pending timer has (ids of timers that are gone are
\* never looked at again, so the smallest free one stands for a fresh one)
FreshTimer(ts) == CHOOSE n \in 1..(Cardinality(ts) + 1) :
                      /\ n \notin TimerIds(ts)
                      /\ \A m \in 1..(n - 1) : m \in TimerIds(ts)

clearTimeout(ts, handle) == {t \in ts : t.id # handle}

\* debouncedApplyFilters, lines 60 and 62-64: the pending timers and the handle
\* after the call (showFilterLoading, line 61, is set by the caller's action)
debouncedApplyFilters(tm) ==
    LET cleared == clearTimeout(tm.timers, tm.handle)
        id == FreshTimer(cleared)
    IN  [timers |-> cleared \cup {[id |-> id, fn |-> "applyFilters"]}, handle |-> id]

\* a comparison debounce that would clear no pending timer
debouncedLoadComparisonKeepsTimers(tm) ==
    LET id == FreshTimer(tm.timers)
    IN  [timers |-> tm.timers \cup {[id |-> id, fn |-> "loadComparison"]}, handle |-> id]

\* debouncedLoadComparison, lines 68 and 70-72
debouncedLoadComparison(tm) ==
    LET cleared == clearTimeout(tm.timers, tm.handle)
        id == FreshTimer(cleared)
    IN  [timers |-> cleared \cup {[id |-> id, fn |-> "loadComparison"]}, handle |-> id]

TimerState == [timers |-> timers, handle |-> filterDebounceTimer]

SetTimerState(tm) ==
    /\ timers' = tm.timers
    /\ filterDebounceTimer' = tm.handle

(* ------------------------------ history ------------------------------- *)
\* A burst is a run of change events on the debounced filter controls with no
\* other handler of the page in between; it ends when a timer callback or any
\* other handler runs.
\* burstN counts its events (up to 2); coalesced holds from the step in which the
\* timer of a burst of two or more events fired until the next handler runs.
ZeroFilters == getFilters("", "", "", "", [c \in MultiSelects |-> {}])
\* resets counts the clicks on the reset button in a row (up to 2), with no
\* other handler of the page, apart from the arrival of responses, in between.
NoBurst == [burst |-> FALSE, burstFilters |-> ZeroFilters, burstN |-> 0,
            coalesced |-> FALSE, resets |-> 0]
BurstAt(f) == [burst |-> TRUE, burstFilters |-> f,
               burstN |-> IF hist.burstN >= 1 THEN 2 ELSE 1, coalesced |-> FALSE,
               resets |-> 0]
ResetDone == [NoBurst EXCEPT !.resets = IF hist.resets >= 1 THEN 2 ELSE 1]
BurstFired == [NoBurst EXCEPT !.coalesced = TRUE]

(* --------------------------- applyFilters ----------------------------- *)
\* a fetch that would listen to no abort signal
DashboardFetchNoSignal(id, filters) == [filters |-> filters, signal |-> Null]

\* the fetch of lines 408-413: the request and the abort signal it listens to
DashboardFetch(id, filters) == [filters |-> filters, signal |-> id]

\* an applyFilters that would return before its fetch
applyFiltersReturnsEarly(loaded, filters) == UNCHANGED dashNetVars

\* applyFilters up to its first await (lines 395-413), called with the value of
\* dataLoaded and the result of getFilters() at the time of the call.  Aborting
\* the pending controller rejects the fetch that listens to its signal; the
\* rejected call's catch/finally runs as a microtask.
applyFilters(loaded, filters) ==
    IF ~loaded
    THEN UNCHANGED dashNetVars
    ELSE LET id == dashIssued + 1
             old == pendingRequest
             rejects == /\ old # Null
                        /\ old \in DOMAIN dashReqs
                        /\ dashReqs[old].signal = old
             keep == IF rejects THEN DOMAIN dashReqs \ {old} ELSE DOMAIN dashReqs
         IN  /\ dashIssued < env.maxDash
             /\ aborted' = IF old # Null /\ old \in DOMAIN dashReqs
                           THEN aborted \cup {old} ELSE aborted
             /\ pendingRequest' = id
             /\ dashIssued' = id
             /\ dashReqs' = [i \in keep \cup {id} |->
                               IF i = id THEN DashboardFetch(id, filters)
                               ELSE dashReqs[i]]
             /\ microtasks' = IF rejects THEN Append(microtasks, old) ELSE microtasks

\* loadData, lines 205-208 and 224-226: a load suspended at `await applyFilters()`
\* resumes when that call has run its finally; it shows its success toast and
\* leaves through its own finally, which enables the refresh button
ResumeLoads(r) ==
    LET waiting == {l \in DOMAIN loads :
                       loads[l].pc = "applying" /\ loads[l].awaitReq = r}
    IN  /\ loads' = [l \in DOMAIN loads |->
                        IF l \in waiting
                        THEN [loads[l] EXCEPT !.pc = "ready", !.awaitReq = 0]
                        ELSE loads[l]]
        /\ refreshBtnDisabled' = IF waiting # {} THEN FALSE ELSE refreshBtnDisabled
        /\ toast' = IF waiting # {} THEN "loaded" ELSE toast

DropDashReq(r) ==
    /\ dashReqs' = [i \in DOMAIN dashReqs \ {r} |-> dashReqs[i]]
    /\ aborted' = aborted \ {r}

\* lines 458-465 for a call whose fetch was rejected with AbortError
applyFiltersAborted ==
    /\ microtasks # <<>>
    /\ UNCHANGED <<env, formatVars>>
    /\ LET r == Head(microtasks)
       IN  /\ microtasks' = Tail(microtasks)
           /\ filterLoading' = FALSE
           /\ pendingRequest' = Null
           /\ aborted' = aborted \ {r}
           /\ ResumeLoads(r)
    /\ UNCHANGED <<globalVars, ctlVars, cmpCtlVars, dashViewVars, chartVars,
                   cmpViewVars, loadingOverlayHidden, loadingMessage, welcomeHidden,
                   dashboardHidden, timerVars, dashReqs, dashIssued, cmpNetVars,
                   chartNetVars, cachedChartData, exportsInFlight, hist>>

\* lines 414-457 and 463-465: a response with success = true arrives
DashboardSuccess(r, keys, withInsights) ==
    /\ microtasks = <<>>
    /\ UNCHANGED <<env, formatVars>>
    /\ r \in DOMAIN dashReqs
    /\ LET data == DashboardBody(r, keys, withInsights)
           filters == dashReqs[r].filters
       IN  /\ kpis' = data.kpis
           /\ insights' = IF data.insights # 0 THEN data.insights ELSE insights
           /\ cachedChartData' = CacheReplace(cachedChartData, data.charts)
           /\ IF activeChart = "map"
              THEN /\ mapMarkers' = renderIndiaMap(CacheGet(cachedChartData', "map"))
                   /\ UNCHANGED chartDisplay
              ELSE IF CacheGet(cachedChartData', activeChart) # NoSeries
              THEN /\ chartDisplay' =
                        renderChart(activeChart, cachedChartData'[activeChart])
                   /\ UNCHANGED mapMarkers
              ELSE UNCHANGED <<chartDisplay, mapMarkers>>
           /\ dataTable' = data.table
           /\ periodBadge' = PeriodBadgeOf(filters)
           /\ activeFilters' = ActiveFiltersOf(filters)
    /\ filterLoading' = FALSE
    /\ pendingRequest' = Null
    /\ DropDashReq(r)
    /\ ResumeLoads(r)
    /\ UNCHANGED <<globalVars, ctlVars, cmpCtlVars, chartLoading, cmpViewVars,
                   loadingOverlayHidden, loadingMessage, welcomeHidden,
                   dashboardHidden, timerVars, dashIssued, microtasks, cmpNetVars,
                   chartNetVars, exportsInFlight, hist>>

\* lines 416 and 463-465: a response with success = false arrives
DashboardFailBody(r) ==
    /\ microtasks = <<>>
    /\ UNCHANGED <<env, formatVars>>
    /\ r \in DOMAIN dashReqs
    /\ pendingRequest' = Null
    /\ DropDashReq(r)
    /\ ResumeLoads(r)
    /\ UNCHANGED <<globalVars, ctlVars, cmpCtlVars, dashViewVars, chartVars,
                   cmpViewVars, loadingOverlayHidden, loadingMessage, welcomeHidden,
                   dashboardHidden, timerVars, dashIssued, microtasks, cmpNetVars,
                   chartNetVars, cachedChartData, filterLoading, exportsInFlight,
                   hist>>

\* a catch block that would also throw the cached bundle away
DashboardNetErrorDropsCache(r) ==
    /\ microtasks = <<>>
    /\ UNCHANGED <<env, formatVars>>
    /\ r \in DOMAIN dashReqs
    /\ filterLoading' = FALSE
    /\ pendingRequest' = Null
    /\ cachedChartData' = EmptyCache
    /\ DropDashReq(r)
    /\ ResumeLoads(r)
    /\ UNCHANGED <<globalVars, ctlVars, cmpCtlVars, dashViewVars, chartVars,
                   cmpViewVars, loadingOverlayHidden, loadingMessage, welcomeHidden,
                   dashboardHidden, timerVars, dashIssued, microtasks, cmpNetVars,
                   chartNetVars, exportsInFlight, hist>>

\* lines 458-465: the fetch or response.json() fails (no connection, no JSON body)
DashboardNetError(r) ==
    /\ microtasks = <<>>
    /\ UNCHANGED <<env, formatVars>>
    /\ r \in DOMAIN dashReqs
    /\ filterLoading' = FALSE
    /\ pendingRequest' = Null
    /\ DropDashReq(r)
    /\ ResumeLoads(r)
    /\ UNCHANGED <<globalVars, ctlVars, cmpCtlVars, dashViewVars, chartVars,
                   cmpViewVars, loadingOverlayHidden, loadingMessage, welcomeHidden,
                   dashboardHidden, timerVars, dashIssued, microtasks, cmpNetVars,
                   chartNetVars, cachedChartData, exportsInFlight, hist>>

(* --------------------------- loadComparison --------------------------- *)
\* lines 844-877: the request body
ComparisonParams(type, p1, p2, dimension, cm) ==
    [comparison_type |-> type, dimension |-> dimension, period1 |-> p1,
     period2 |-> p2, filters |-> cm]

\* loadComparison up to its await (lines 842-884), called with the values the
\* controls have at the time of the call; splitting a null period of a
\* quarter comparison throws before the request is made
loadComparison(loaded, type, p1, p2, dimension, cm) ==
    IF ~loaded \/ (type = "quarter" /\ (p1 = <<>> \/ p2 = <<>>))
    THEN UNCHANGED cmpNetVars
    ELSE /\ compIssued < env.maxComp
         /\ compIssued' = compIssued + 1
         /\ compReqs' = [i \in DOMAIN compReqs \cup {compIssued + 1} |->
                            IF i = compIssued + 1
                            THEN ComparisonParams(type, p1, p2, dimension, cm)
                            ELSE compReqs[i]]

DropCompReq(c) == compReqs' = [i \in DOMAIN compReqs \ {c} |-> compReqs[i]]

\* a rendering that would leave the comparison table as it was
renderComparisonKeepsTable(view, c) == [kpis |-> c, chart |-> c, table |-> view.table]

\* lines 888-890: renderComparisonKPIs(data), renderComparisonChart(data) and
\* renderComparisonTable(data.comparisons) draw the response to request c
renderComparison(view, c) == [kpis |-> c, chart |-> c, table |-> c]

\* lines 885-892: a response with success = true arrives
ComparisonSuccess(c) ==
    /\ microtasks = <<>>
    /\ UNCHANGED <<env, formatVars>>
    /\ c \in DOMAIN compReqs
    /\ comparisonView' = renderComparison(comparisonView, c)
    /\ comparisonLoading' = FALSE
    /\ DropCompReq(c)
    /\ UNCHANGED <<globalVars, ctlVars, cmpCtlVars, dashViewVars, chartVars,
                   loadUiVars, timerVars, dashNetVars, compIssued, chartNetVars,
                   cachedChartData, filterLoading, loads, exportsInFlight, toast, hist>>

\* line 887: success = false
ComparisonFailBody(c) ==
    /\ microtasks = <<>>
    /\ UNCHANGED <<env, formatVars>>
    /\ c \in DOMAIN compReqs
    /\ DropCompReq(c)
    /\ UNCHANGED <<globalVars, ctlVars, cmpCtlVars, dashViewVars, chartVars,
                   cmpViewVars, loadUiVars, timerVars, dashNetVars, compIssued,
                   chartNetVars, cachedChartData, filterLoading, loads,
                   exportsInFlight, toast, hist>>

\* lines 893-896
ComparisonNetError(c) ==
    /\ microtasks = <<>>
    /\ UNCHANGED <<env, formatVars>>
    /\ c \in DOMAIN compReqs
    /\ comparisonLoading' = FALSE
    /\ DropCompReq(c)
    /\ UNCHANGED <<globalVars, ctlVars, cmpCtlVars, dashViewVars, chartVars,
                   comparisonView, loadUiVars, timerVars, dashNetVars, compIssued,
                   chartNetVars, cachedChartData, filterLoading, loads,
                   exportsInFlight, toast, hist>>

(* ------------------- showChart, loadChart, loadMapData ----------------- *)
IssueChartReq(endpoint, chartType) ==
    /\ chartIssued < env.maxCharts
    /\ chartIssued' = chartIssued + 1
    /\ chartReqs' = [i \in DOMAIN chartReqs \cup {chartIssued + 1} |->
                        IF i = chartIssued + 1
                        THEN [endpoint |-> endpoint, type |-> chartType]
                        ELSE chartReqs[i]]

DropChartReq(c) == chartReqs' = [i \in DOMAIN chartReqs \ {c} |-> chartReqs[i]]

EmptyDisplay == [kind |-> "empty", type |-> "", series |-> NoSeries]
ErrorDisplay == [kind |-> "error", type |-> "", series |-> NoSeries]
NoDataDisplay == [kind |-> "nodata", type |-> "", series |-> NoSeries]

\* lines 519-553: a click on a chart tab
showChart(chartType) ==
    /\ microtasks = <<>>
    /\ "tabs" \in env.use
    /\ UNCHANGED <<env, formatVars>>
    /\ activeChart' = chartType
    /\ IF chartType = "map"
       THEN IF CacheGet(cachedChartData, "map") # NoSeries
            THEN /\ mapMarkers' = renderIndiaMap(cachedChartData["map"])
                 /\ UNCHANGED <<chartDisplay, chartLoading, chartNetVars>>
            ELSE /\ IssueChartReq("map", "map")
                 /\ UNCHANGED <<chartDisplay, chartLoading, mapMarkers>>
       ELSE IF CacheGet(cachedChartData, chartType) # NoSeries
            THEN /\ chartDisplay' = renderChart(chartType, cachedChartData[chartType])
                 /\ UNCHANGED <<mapMarkers, chartLoading, chartNetVars>>
            ELSE \* loadChart, lines 575-583
                 /\ chartLoading' = TRUE
                 /\ chartDisplay' = EmptyDisplay
                 /\ IssueChartReq("charts", chartType)
                 /\ UNCHANGED mapMarkers
    /\ UNCHANGED <<dataLoaded, filterOptions, currentMode, ctlVars, cmpCtlVars,
                   dashViewVars, cmpViewVars, loadUiVars, timerVars, dashNetVars,
                   cmpNetVars, cachedChartData, filterLoading, loads,
                   exportsInFlight, toast, hist>>

\* loadChart, lines 584-596, and loadMapData, lines 731-738: the response of an
\* on-demand fetch; outcome is "data" (success with data), "nodata" or "error"
ChartResponse(c, outcome) ==
    /\ microtasks = <<>>
    /\ UNCHANGED <<env, formatVars>>
    /\ c \in DOMAIN chartReqs
    /\ LET req == chartReqs[c]
       IN  IF req.endpoint = "map"
           THEN /\ mapMarkers' = IF outcome = "data"
                                 THEN renderIndiaMap(Series("map", c, "map"))
                                 ELSE mapMarkers
                /\ UNCHANGED <<chartDisplay, chartLoading>>
           ELSE /\ chartDisplay' =
                       IF outcome = "data"
                       THEN renderChart(req.type, Series("charts", c, req.type))
                       ELSE IF outcome = "nodata" THEN NoDataDisplay
                       ELSE ErrorDisplay
                /\ chartLoading' = FALSE
                /\ UNCHANGED mapMarkers
    /\ DropChartReq(c)
    /\ UNCHANGED <<globalVars, ctlVars, cmpCtlVars, dashViewVars, cmpViewVars,
                   loadUiVars, timerVars, dashNetVars, cmpNetVars, chartIssued,
                   cachedChartData, filterLoading, loads, exportsInFlight, toast, hist>>

(* ------------------------- filter-control events ----------------------- *)
Toggle(set, v) == IF v \in set THEN set \ {v} ELSE set \cup {v}

\* lines 33-34 and 59-65: the change handler of a debounced filter control, run
\* after the control took its new value
OnDebouncedFilterChange(newFilters) ==
    /\ SetTimerState(debouncedApplyFilters(TimerState))
    /\ filterLoading' = TRUE
    /\ hist' = BurstAt(newFilters)
    /\ UNCHANGED <<globalVars, subHidden, cmpCtlVars, dashViewVars, chartVars,
                   cmpViewVars, loadUiVars, dashNetVars, cmpNetVars, chartNetVars,
                   cachedChartData, loads, exportsInFlight, toast>>

\* the user picks or unpicks value v in one of the six multi-selects (line 33)
ChangeMulti(c, v) ==
    /\ microtasks = <<>>
    /\ "filters" \in env.use
    /\ UNCHANGED <<env, formatVars>>
    /\ currentMode = "single"
    /\ v \in filterOptions[c]
    /\ multi' = [multi EXCEPT ![c] = Toggle(multi[c], v)]
    /\ UNCHANGED <<periodType, year, fy, quarter>>
    /\ OnDebouncedFilterChange(getFilters(periodType, year, fy, quarter, multi'))

\* the user picks another entry of #year, #fy or #quarter (line 34); a
\* sub-control can be operated while onPeriodTypeChange shows it
ChangeYear(y) ==
    /\ microtasks = <<>>
    /\ "filters" \in env.use
    /\ UNCHANGED <<env, formatVars>>
    /\ currentMode = "single"
    /\ ~subHidden.year
    /\ y \in {""} \cup Range(filterOptions.years)
    /\ y # year
    /\ year' = y
    /\ UNCHANGED <<periodType, fy, quarter, multi>>
    /\ OnDebouncedFilterChange(getFilters(periodType, y, fy, quarter, multi))

ChangeFy(f) ==
    /\ microtasks = <<>>
    /\ "fy" \in env.use
    /\ UNCHANGED <<env, formatVars>>
    /\ currentMode = "single"
    /\ ~subHidden.fy
    /\ f \in {""} \cup Range(filterOptions.financial_years)
    /\ f # fy
    /\ fy' = f
    /\ UNCHANGED <<periodType, year, quarter, multi>>
    /\ OnDebouncedFilterChange(getFilters(periodType, year, f, quarter, multi))

ChangeQuarter(q) ==
    /\ microtasks = <<>>
    /\ "filters" \in env.use
    /\ UNCHANGED <<env, formatVars>>
    /\ currentMode = "single"
    /\ ~subHidden.quarter
    /\ q \in {""} \cup Range(filterOptions.quarters)
    /\ q # quarter
    /\ quarter' = q
    /\ UNCHANGED <<periodType, year, fy, multi>>
    /\ OnDebouncedFilterChange(getFilters(periodType, year, fy, q, multi))

\* lines 332-347: the user picks another period type
onPeriodTypeChange(type) ==
    /\ microtasks = <<>>
    /\ "periodType" \in env.use
    /\ UNCHANGED <<env, formatVars>>
    /\ currentMode = "single"
    /\ type # periodType
    /\ periodType' = type
    /\ subHidden' = [year |-> type \notin {"year", "quarter"},
                     fy |-> type # "fy",
                     quarter |-> type # "quarter"]
    /\ applyFilters(dataLoaded, getFilters(type, year, fy, quarter, multi))
    /\ hist' = NoBurst
    /\ UNCHANGED <<globalVars, year, fy, quarter, multi, cmpCtlVars, dashViewVars,
                   chartVars, cmpViewVars, loadUiVars, timerVars, cmpNetVars,
                   chartNetVars, cachedChartData, filterLoading, loads,
                   exportsInFlight, toast>>

(* ----------------------- comparison-control events --------------------- *)
\* lines 35-36 and 67-73: the change handler of a debounced comparison control
OnDebouncedComparisonChange ==
    /\ SetTimerState(debouncedLoadComparison(TimerState))
    /\ comparisonLoading' = TRUE
    /\ hist' = NoBurst
    /\ UNCHANGED <<globalVars, ctlVars, comparisonType, periodOptions, dashViewVars,
                   chartVars, comparisonView, loadUiVars, dashNetVars, cmpNetVars,
                   chartNetVars, cachedChartData, filterLoading, loads,
                   exportsInFlight, toast>>

ChangePeriod1(p) ==
    /\ microtasks = <<>>
    /\ "periods" \in env.use
    /\ UNCHANGED <<env, formatVars>>
    /\ currentMode = "comparison"
    /\ p \in Range(periodOptions)
    /\ p # period1
    /\ period1' = p
    /\ UNCHANGED <<period2, comparisonDimension, compMulti>>
    /\ OnDebouncedComparisonChange

ChangePeriod2(p) ==
    /\ microtasks = <<>>
    /\ "periods" \in env.use
    /\ UNCHANGED <<env, formatVars>>
    /\ currentMode = "comparison"
    /\ p \in Range(periodOptions)
    /\ p # period2
    /\ period2' = p
    /\ UNCHANGED <<period1, comparisonDimension, compMulti>>
    /\ OnDebouncedComparisonChange

ChangeDimension(d) ==
    /\ microtasks = <<>>
    /\ "comparison" \in env.use
    /\ UNCHANGED <<env, formatVars>>
    /\ currentMode = "comparison"
    /\ d # comparisonDimension
    /\ comparisonDimension' = d
    /\ UNCHANGED <<period1, period2, compMulti>>
    /\ OnDebouncedComparisonChange

ChangeCompMulti(c, v) ==
    /\ microtasks = <<>>
    /\ "comparison" \in env.use
    /\ UNCHANGED <<env, formatVars>>
    /\ currentMode = "comparison"
    /\ v \in filterOptions[c]
    /\ compMulti' = [compMulti EXCEPT ![c] = Toggle(compMulti[c], v)]
    /\ UNCHANGED <<period1, period2, comparisonDimension>>
    /\ OnDebouncedComparisonChange

\* lines 349-352: the user picks another comparison type
onComparisonTypeChange(type) ==
    /\ microtasks = <<>>
    /\ "periods" \in env.use
    /\ UNCHANGED <<env, formatVars>>
    /\ currentMode = "comparison"
    /\ type # comparisonType
    /\ comparisonType' = type
    /\ LET p == populateComparisonPeriods(type, filterOptions)
       IN  /\ period1' = p.period1
           /\ period2' = p.period2
           /\ periodOptions' = ComparisonPeriodOptions(type, filterOptions)
           /\ loadComparison(dataLoaded, type, p.period1, p.period2,
                             comparisonDimension, compMulti)
    /\ hist' = NoBurst
    /\ UNCHANGED <<globalVars, ctlVars, comparisonDimension, compMulti, dashViewVars,
                   chartVars, cmpViewVars, loadUiVars, timerVars, dashNetVars,
                   chartNetVars, cachedChartData, filterLoading, loads,
                   exportsInFlight, toast>>

(* ---------------------- timers, mode, reset, export -------------------- *)
\* lines 62-64 and 70-72: a debounce timer's callback runs after its 300 ms
TimerFires(t) ==
    /\ microtasks = <<>>
    /\ UNCHANGED <<env, formatVars>>
    /\ t \in timers
    /\ timers' = timers \ {t}
    /\ IF t.fn = "applyFilters"
       THEN /\ applyFilters(dataLoaded, CurrentFilters)
            /\ UNCHANGED cmpNetVars
       ELSE /\ loadComparison(dataLoaded, comparisonType, period1, period2,
                              comparisonDimension, compMulti)
            /\ UNCHANGED dashNetVars
    /\ hist' = IF t.fn = "applyFilters" /\ hist.burstN >= 2 THEN BurstFired ELSE NoBurst
    /\ UNCHANGED <<globalVars, ctlVars, cmpCtlVars, dashViewVars, chartVars,
                   cmpViewVars, loadUiVars, filterDebounceTimer, chartNetVars,
                   cachedChartData, filterLoading, loads, exportsInFlight, toast>>

\* lines 355-373: a click on a mode button
setMode(mode) ==
    /\ microtasks = <<>>
    /\ "mode" \in env.use
    /\ UNCHANGED <<env, formatVars>>
    /\ currentMode' = mode
    /\ IF mode = "single"
       THEN /\ applyFilters(dataLoaded, CurrentFilters)
            /\ UNCHANGED cmpNetVars
       ELSE /\ loadComparison(dataLoaded, comparisonType, period1, period2,
                              comparisonDimension, compMulti)
            /\ UNCHANGED dashNetVars
    /\ hist' = NoBurst
    /\ UNCHANGED <<dataLoaded, filterOptions, activeChart, ctlVars, cmpCtlVars,
                   dashViewVars, chartVars, cmpViewVars, loadUiVars, timerVars,
                   chartNetVars, cachedChartData, filterLoading, loads,
                   exportsInFlight, toast>>

\* lines 1020-1039: a click on the reset button.  trigger('change') runs the
\* change handler once for each of the six, then each of the four, elements
resetFilters ==
    /\ microtasks = <<>>
    /\ "reset" \in env.use
    /\ UNCHANGED <<env, formatVars>>
    /\ periodType' = ""
    /\ year' = ""
    /\ fy' = ""
    /\ quarter' = ""
    /\ subHidden' = [year |-> TRUE, fy |-> TRUE, quarter |-> TRUE]
    /\ multi' = [c \in MultiSelects |-> {}]
    /\ LET f1 == debouncedApplyFilters(TimerState)
           f2 == debouncedApplyFilters(f1)
           f3 == debouncedApplyFilters(f2)
           f4 == debouncedApplyFilters(f3)
           f5 == debouncedApplyFilters(f4)
           f6 == debouncedApplyFilters(f5)
           c1 == debouncedLoadComparison(f6)
           c2 == debouncedLoadComparison(c1)
           c3 == debouncedLoadComparison(c2)
           c4 == debouncedLoadComparison(c3)
       IN  SetTimerState(c4)
    /\ filterLoading' = TRUE
    /\ comparisonLoading' = TRUE
    /\ comparisonType' = "year"
    /\ period1' = <<>>
    /\ period2' = <<>>
    /\ comparisonDimension' = "Overall"
    /\ compMulti' = [c \in CompMultiSelects |-> {}]
    /\ applyFilters(dataLoaded, ZeroFilters)
    /\ hist' = ResetDone
    /\ toast' = "reset"
    /\ UNCHANGED <<globalVars, periodOptions, dashViewVars, chartVars,
                   comparisonView, loadUiVars, cmpNetVars, chartNetVars,
                   cachedChartData, loads, exportsInFlight>>

\* lines 1042-1050: a click on the export button posts the current filters
exportData ==
    /\ microtasks = <<>>
    /\ "export" \in env.use
    /\ UNCHANGED <<env, formatVars>>
    /\ ~exportsInFlight
    /\ exportsInFlight' = TRUE
    /\ UNCHANGED <<toast, globalVars, ctlVars, cmpCtlVars, dashViewVars, chartVars,
                   cmpViewVars, loadUiVars, timerVars, dashNetVars, cmpNetVars,
                   chartNetVars, cachedChartData, filterLoading, loads, hist>>

\* lines 1052-1069: the export response arrives with a 2xx status ("ok") or
\* another one ("notok"), or the fetch fails ("error")
ExportResponse(outcome) ==
    /\ microtasks = <<>>
    /\ UNCHANGED <<env, formatVars>>
    /\ exportsInFlight
    /\ exportsInFlight' = FALSE
    /\ toast' = IF outcome = "ok" THEN "exported" ELSE "exportFailed"
    /\ UNCHANGED <<globalVars, ctlVars, cmpCtlVars, dashViewVars, chartVars,
                   cmpViewVars, loadUiVars, timerVars, dashNetVars, cmpNetVars,
                   chartNetVars, cachedChartData, filterLoading, loads, hist>>

\* the toasts that showToast shows with type 'error' (lines 223, 1064, 1068)
ErrorToasts == {"loadFailed", "exportFailed"}

(* ------------------------------ loadData ------------------------------- *)
Min(a, b) == IF a < b THEN a ELSE b

\* lines 173-180: the progress message shown for an attempt
MessageFor(retryCount) ==
    <<"connecting", "loading", "processing">>[Min(retryCount, LastMessage) + 1]

\* a retry test that would not look at the kind of failure
ShouldRetryAnyError(retryCount, errorName) == retryCount < MaxRetries

\* a retry test that would allow one retry more
ShouldRetryOnceMore(retryCount, errorName) ==
    retryCount <= MaxRetries /\ errorName = "AbortError"

\* line 215: whether the catch block retries
ShouldRetry(retryCount, errorName) ==
    retryCount < MaxRetries /\ errorName = "AbortError"

NewLoad(force) ==
    [force |-> force, retryCount |-> 0, pc |-> "fetching", awaitReq |-> 0,
     error |-> ""]

\* line 27 with lines 166-191: a click on the enabled refresh button starts
\* loadData(true) and runs it up to its fetch
RefreshClick ==
    /\ microtasks = <<>>
    /\ UNCHANGED <<env, formatVars>>
    /\ ~refreshBtnDisabled
    /\ Len(loads) < env.maxLoads
    /\ "refresh" \in env.use
    /\ loads' = Append(loads, NewLoad(TRUE))
    /\ refreshBtnDisabled' = TRUE
    /\ loadingMessage' = MessageFor(0)
    /\ UNCHANGED <<globalVars, ctlVars, cmpCtlVars, dashViewVars, chartVars,
                   cmpViewVars, loadingOverlayHidden, welcomeHidden,
                   dashboardHidden, timerVars, dashNetVars, cmpNetVars,
                   chartNetVars, cachedChartData, filterLoading, exportsInFlight, toast,
                   hist>>

\* lines 212-226: the fetch of load l fails.  errorName is "AbortError" when
\* the 300 s timer of line 184 aborted it, "TypeError" when the network failed
\* and "Error" when the body said success = false (line 210)
LoadFailure(l, errorName) ==
    /\ microtasks = <<>>
    /\ UNCHANGED <<env, formatVars>>
    /\ l \in DOMAIN loads
    /\ loads[l].pc = "fetching"
    /\ "loadFailure" \in env.use
    /\ IF ShouldRetry(loads[l].retryCount, errorName)
       THEN /\ loadingMessage' = "retrying"
            /\ loads' = [loads EXCEPT ![l].pc = "cooldown", ![l].error = errorName]
            /\ UNCHANGED <<loadingOverlayHidden, welcomeHidden, refreshBtnDisabled,
                           toast>>
       ELSE /\ loadingOverlayHidden' = TRUE
            /\ welcomeHidden' = FALSE
            /\ refreshBtnDisabled' = FALSE
            /\ toast' = "loadFailed"
            /\ loads' = [loads EXCEPT ![l].pc = "failed", ![l].error = errorName]
            /\ UNCHANGED loadingMessage
    /\ UNCHANGED <<globalVars, ctlVars, cmpCtlVars, dashViewVars, chartVars,
                   cmpViewVars, dashboardHidden, timerVars, dashNetVars, cmpNetVars,
                   chartNetVars, cachedChartData, filterLoading, exportsInFlight,
                   hist>>

\* a retry that would pass retryCount on as it is
LoadRetryKeepsCount(l) ==
    /\ microtasks = <<>>
    /\ UNCHANGED <<env, formatVars>>
    /\ l \in DOMAIN loads
    /\ loads[l].pc = "cooldown"
    /\ loads' = [loads EXCEPT ![l].pc = "fetching", ![l].error = ""]
    /\ loadingOverlayHidden' = IF loads[l].force THEN loadingOverlayHidden ELSE FALSE
    /\ loadingMessage' = MessageFor(loads[l].retryCount)
    /\ refreshBtnDisabled' = FALSE
    /\ UNCHANGED <<globalVars, ctlVars, cmpCtlVars, dashViewVars, chartVars,
                   cmpViewVars, welcomeHidden, dashboardHidden, timerVars,
                   dashNetVars, cmpNetVars, chartNetVars, cachedChartData,
                   filterLoading, exportsInFlight, toast, hist>>

\* lines 217-218 and 224-226: after the 2 s cool-down the catch block calls
\* loadData(forceRefresh, retryCount + 1), which runs up to its fetch, and then
\* leaves through the finally block of the failed attempt
LoadRetry(l) ==
    /\ microtasks = <<>>
    /\ UNCHANGED <<env, formatVars>>
    /\ l \in DOMAIN loads
    /\ loads[l].pc = "cooldown"
    /\ loads' = [loads EXCEPT ![l].pc = "fetching", ![l].error = "",
                              ![l].retryCount = loads[l].retryCount + 1]
    /\ loadingOverlayHidden' = IF loads[l].force THEN loadingOverlayHidden ELSE FALSE
    /\ loadingMessage' = MessageFor(loads[l].retryCount + 1)
    /\ refreshBtnDisabled' = FALSE
    /\ UNCHANGED <<globalVars, ctlVars, cmpCtlVars, dashViewVars, chartVars,
                   cmpViewVars, welcomeHidden, dashboardHidden, timerVars,
                   dashNetVars, cmpNetVars, chartNetVars, cachedChartData,
                   filterLoading, exportsInFlight, toast, hist>>

\* populateFilters, lines 242-294: a single select keeps its value when the new
\* options have it, a multi-select keeps the picked values the new options have
KeepSingle(current, optionValues) ==
    IF Truthy(current) THEN SelectVal(current, optionValues) ELSE ""

\* lines 193-205: a response with success = true arrives; the load goes on to
\* `await applyFilters()`
LoadSuccess(l, options) ==
    /\ microtasks = <<>>
    /\ UNCHANGED <<env, formatVars>>
    /\ l \in DOMAIN loads
    /\ loads[l].pc = "fetching"
    /\ dataLoaded' = TRUE
    /\ filterOptions' = options
    /\ year' = KeepSingle(year, Range(options.years))
    /\ fy' = KeepSingle(fy, Range(options.financial_years))
    /\ quarter' = KeepSingle(quarter, Range(options.quarters))
    /\ multi' = [c \in MultiSelects |-> multi[c] \cap options[c]]
    /\ compMulti' = [c \in CompMultiSelects |-> compMulti[c] \cap options[c]]
    /\ LET p == populateComparisonPeriods(comparisonType, options)
       IN  /\ period1' = p.period1
           /\ period2' = p.period2
           /\ periodOptions' = ComparisonPeriodOptions(comparisonType, options)
    /\ welcomeHidden' = TRUE
    /\ dashboardHidden' = FALSE
    /\ loadingOverlayHidden' = TRUE
    /\ applyFilters(TRUE, getFilters(periodType, year', fy', quarter', multi'))
    /\ loads' = [loads EXCEPT ![l].pc = "applying", ![l].awaitReq = dashIssued + 1]
    /\ hist' = NoBurst
    /\ UNCHANGED <<currentMode, activeChart, periodType, subHidden, comparisonType,
                   comparisonDimension, dashViewVars, chartVars, cmpViewVars,
                   refreshBtnDisabled, loadingMessage, timerVars, cmpNetVars,
                   chartNetVars, cachedChartData, filterLoading, exportsInFlight, toast>>

(* ---------------------------- formatCurrency --------------------------- *)
\* Amounts are counted in paise (hundredths of a rupee), so that amounts with
\* decimals are covered; a value that is null, undefined or NaN is Missing.
Crore == 10000000
Lakh == 100000
Thousand == 1000
Missing == [number |-> FALSE, n |-> 0]
Num(n) == [number |-> TRUE, n |-> n]

Abs(n) == IF n < 0 THEN -n ELSE n

\* Number.prototype.toFixed: the integers q for which q / 10^digits is as close
\* as possible to n / d, for n >= 0.  There are two when n / d lies halfway;
\* which of them JavaScript prints depends on how the binary quotient was
\* rounded, so both are possible.
toFixed(n, d) ==
    LET q == n \div d
        r == n % d
    IN  IF 2 * r < d THEN {q}
        ELSE IF 2 * r > d THEN {q + 1}
        ELSE {q, q + 1}

\* the text sign + 'Rs.' + numeral + suffix, the numeral having `decimals` digits
\* after the point and the value scaled / 10^decimals
Text(sign, scaled, decimals, suffix) ==
    [sign |-> sign, scaled |-> scaled, decimals |-> decimals, suffix |-> suffix]

\* a formatter that would take the next form only above its boundary
formatCurrencyAboveOnly(value) ==
    IF ~value.number THEN {Text("", 0, 0, "")}
    ELSE LET sign == IF value.n < 0 THEN "-" ELSE IF value.n > 0 THEN "+" ELSE ""
             a == Abs(value.n)
         IN  IF a > Crore * 100
             THEN {Text(sign, q, 2, " Cr") : q \in toFixed(a, Crore)}
             ELSE IF a > Lakh * 100
             THEN {Text(sign, q, 2, " Lakh") : q \in toFixed(a, Lakh)}
             ELSE IF a > Thousand * 100
             THEN {Text(sign, q, 2, " K") : q \in toFixed(a, Thousand)}
             ELSE {Text(sign, q, 0, "") : q \in toFixed(a, 100)}

\* lines 982-991: the texts formatCurrency(value) can return
formatCurrency(value) ==
    IF ~value.number THEN {Text("", 0, 0, "")}
    ELSE LET sign == IF value.n < 0 THEN "-" ELSE IF value.n > 0 THEN "+" ELSE ""
             a == Abs(value.n)
         IN  IF a >= Crore * 100
             THEN {Text(sign, q, 2, " Cr") : q \in toFixed(a, Crore)}
             ELSE IF a >= Lakh * 100
             THEN {Text(sign, q, 2, " Lakh") : q \in toFixed(a, Lakh)}
             ELSE IF a >= Thousand * 100
             THEN {Text(sign, q, 2, " K") : q \in toFixed(a, Thousand)}
             ELSE {Text(sign, q, 0, "") : q \in toFixed(a, 100)}

\* the amounts a run formats: those within FormatRadius paise of a boundary, the
\* amounts 1,500, 150,000 and 15,000,000, an amount that lies halfway between
\* two numerals (1,005), each also negative, and a missing value
FormatBoundaries == {0, Thousand * 100, Lakh * 100, Crore * 100}
Amounts ==
    LET near == {b + k : b \in FormatBoundaries, k \in (-FormatRadius)..FormatRadius}
        inner == {150000, 15000000, 1500000000, 100500}
    IN  {Num(n) : n \in near \cup inner} \cup {Num(-n) : n \in near \cup inner}
            \cup {Missing}

\* lines 83-90 and 903-904: the comparison view formats an amount of a response
formatValue ==
    /\ microtasks = <<>>
    /\ "format" \in env.use
    /\ formatted = <<>>
    /\ \E t \in formatCurrency(amount) : formatted' = <<t>>
    /\ UNCHANGED <<globalVars, ctlVars, cmpCtlVars, dashViewVars, chartVars,
                   cmpViewVars, loadUiVars, timerVars, dashNetVars, cmpNetVars,
                   chartNetVars, cachedChartData, filterLoading, loads,
                   exportsInFlight, toast, hist, env, amount>>

(* ---------------------------- environments ----------------------------- *)
\* what the user operates: "filters" the debounced filter controls,
\* "periodType" the period-type select, "comparison" the comparison dimension
\* and multi-selects, "periods" the comparison type and period selects,
\* "mode" the mode buttons, "tabs" the chart tabs, "reset", "export" and
\* "refresh" the buttons; "loadFailure": /api/load may fail or time out;
\* "format": formatCurrency is applied to an amount; "fy": the financial-year
\* period type and the #fy select
FilterEnv ==
    [maxDash |-> MaxDash, maxComp |-> 0, maxCharts |-> 0, maxLoads |-> 1,
     use |-> {"filters", "periodType", "reset"}]
ComparisonEnv ==
    [maxDash |-> 1, maxComp |-> MaxComp, maxCharts |-> 0, maxLoads |-> 1,
     use |-> {"comparison", "mode", "reset", "export"}]
LoadEnv ==
    [maxDash |-> MaxLoadDash, maxComp |-> 0, maxCharts |-> 0, maxLoads |-> MaxLoads,
     use |-> {"refresh", "loadFailure"}]
ChartEnv ==
    [maxDash |-> MaxChartDash, maxComp |-> 0, maxCharts |-> MaxChartReqs,
     maxLoads |-> 1, use |-> {"tabs", "periodType"}]
PeriodEnv ==
    [maxDash |-> 1, maxComp |-> MaxPeriodComp, maxCharts |-> 0, maxLoads |-> 1,
     use |-> {"periods", "mode", "reset"}]
SharedTimerEnv ==
    [maxDash |-> MaxSharedDash, maxComp |-> MaxSharedComp, maxCharts |-> 0,
     maxLoads |-> 1, use |-> {"filters", "comparison", "mode"}]
ResetEnv ==
    [maxDash |-> MaxResetDash, maxComp |-> MaxResetComp, maxCharts |-> 0,
     maxLoads |-> 1, use |-> {"reset"}]
FormatEnv ==
    [maxDash |-> 1, maxComp |-> 0, maxCharts |-> 0, maxLoads |-> 1,
     use |-> {"format"}]
BadgeEnv ==
    [maxDash |-> MaxBadgeDash, maxComp |-> 0, maxCharts |-> 0, maxLoads |-> 1,
     use |-> {"periodType", "fy"}]
Environments == {FilterEnv, ComparisonEnv, PeriodEnv, LoadEnv, ChartEnv, SharedTimerEnv, ResetEnv, FormatEnv, BadgeEnv}

\* the period types the user of environment e picks
PeriodTypesOf(e) == IF "fy" \in e.use THEN UsedPeriodTypes \cup {"fy"} ELSE UsedPeriodTypes

(* --------------------------- specification ----------------------------- *)
\* the state when $(document).ready has returned: it has called loadData(),
\* which ran up to its fetch (lines 14-42 and 166-191)
Init ==
    /\ dataLoaded = FALSE
    /\ filterOptions = NoOptions
    /\ currentMode = "single"
    /\ activeChart = "monthly"
    /\ filterDebounceTimer = Null
    /\ pendingRequest = Null
    /\ cachedChartData = EmptyCache
    /\ periodType = ""
    /\ year = ""
    /\ fy = ""
    /\ quarter = ""
    /\ multi = [c \in MultiSelects |-> {}]
    /\ subHidden = [year |-> TRUE, fy |-> TRUE, quarter |-> TRUE]
    /\ comparisonType = "year"
    /\ period1 = <<>>
    /\ period2 = <<>>
    /\ periodOptions = <<>>
    /\ comparisonDimension = "Overall"
    /\ compMulti = [c \in CompMultiSelects |-> {}]
    /\ kpis = 0
    /\ insights = 0
    /\ dataTable = 0
    /\ periodBadge = <<"All Time">>
    /\ activeFilters = {}
    /\ chartDisplay = EmptyDisplay
    /\ mapMarkers = NoSeries
    /\ filterLoading = FALSE
    /\ chartLoading = FALSE
    /\ comparisonView = [kpis |-> 0, chart |-> 0, table |-> 0]
    /\ comparisonLoading = FALSE
    /\ refreshBtnDisabled = TRUE
    /\ loadingOverlayHidden = FALSE
    /\ loadingMessage = MessageFor(0)
    /\ welcomeHidden = FALSE
    /\ dashboardHidden = TRUE
    /\ timers = {}
    /\ aborted = {}
    /\ dashReqs = <<>>
    /\ dashIssued = 0
    /\ microtasks = <<>>
    /\ compReqs = <<>>
    /\ compIssued = 0
    /\ chartReqs = <<>>
    /\ chartIssued = 0
    /\ loads = <<NewLoad(FALSE)>>
    /\ exportsInFlight = FALSE
    /\ toast = "none"
    /\ hist = NoBurst
    /\ env \in Environments
    /\ amount \in IF "format" \in env.use THEN Amounts ELSE {Missing}
    /\ formatted = <<>>

Next ==
    \/ applyFiltersAborted
    \/ \E r \in DOMAIN dashReqs, keys \in BundleKeySets, wi \in {TRUE} :
           DashboardSuccess(r, keys, wi)
    \/ \E r \in DOMAIN dashReqs : DashboardFailBody(r)
    \/ \E r \in DOMAIN dashReqs : DashboardNetError(r)
    \/ \E c \in DOMAIN compReqs : ComparisonSuccess(c)
    \/ \E c \in DOMAIN compReqs : ComparisonFailBody(c)
    \/ \E c \in DOMAIN compReqs : ComparisonNetError(c)
    \/ \E t \in ChartTypes : showChart(t)
    \/ \E c \in DOMAIN chartReqs, o \in {"data", "nodata", "error"} : ChartResponse(c, o)
    \/ \E c \in UsedMultiSelects, v \in {"KL"} : ChangeMulti(c, v)
    \/ \E y \in {"", "2024"} : ChangeYear(y)
    \/ \E t \in PeriodTypesOf(env) : onPeriodTypeChange(t)
    \/ \E f \in {"", "FY25"} : ChangeFy(f)
    \/ \E d \in Dimensions : ChangeDimension(d)
    \/ \E q \in Range(periodOptions) : ChangePeriod1(q)
    \/ \E q \in Range(periodOptions) : ChangePeriod2(q)
    \/ \E t \in ComparisonTypes : onComparisonTypeChange(t)
    \/ \E t \in timers : TimerFires(t)
    \/ \E m \in {"single", "comparison"} : setMode(m)
    \/ resetFilters
    \/ exportData
    \/ \E o \in {"ok", "notok", "error"} : ExportResponse(o)
    \/ RefreshClick
    \/ \E l \in DOMAIN loads, e \in {"AbortError", "TypeError", "Error"} : LoadFailure(l, e)
    \/ \E l \in DOMAIN loads : LoadRetry(l)
    \/ \E l \in DOMAIN loads, o \in OptionSets : LoadSuccess(l, o)
    \/ formatValue

Spec == Init /\ [][Next]_vars

\* What the platform guarantees: a continuation in the microtask queue runs, the
\* 2 s cool-down timer of a retry fires, and every /api/load attempt ends (with a
\* response, a network failure, or the abort of its 300 s timer).
LoadEnds(l) ==
    \/ \E o \in OptionSets : LoadSuccess(l, o)
    \/ \E e \in {"AbortError", "TypeError", "Error"} : LoadFailure(l, e)
\* the runs of the load environment; LoadNext holds the actions of Next that this
\* environment enables
LoadInit == Init /\ env = LoadEnv
LoadNext ==
    \/ applyFiltersAborted
    \/ \E r \in DOMAIN dashReqs, keys \in BundleKeySets, wi \in {TRUE} :
           DashboardSuccess(r, keys, wi)
    \/ \E r \in DOMAIN dashReqs : DashboardFailBody(r)
    \/ \E r \in DOMAIN dashReqs : DashboardNetError(r)
    \/ RefreshClick
    \/ \E l \in DOMAIN loads, e \in {"AbortError", "TypeError", "Error"} : LoadFailure(l, e)
    \/ \E l \in DOMAIN loads : LoadRetry(l)
    \/ \E l \in DOMAIN loads, o \in OptionSets : LoadSuccess(l, o)
FairSpec ==
    /\ LoadInit
    /\ [][LoadNext]_vars
    /\ WF_vars(applyFiltersAborted)
    /\ \A l \in 1..MaxLoads : WF_vars(LoadRetry(l)) /\ WF_vars(LoadEnds(l))


(* ------------------------------ properties ----------------------------- *)
\* the charts object of the response to /api/dashboard request r
IsBundleOf(cache, r) ==
    \E keys \in BundleKeySets : cache = DashboardBody(r, keys, TRUE).charts

\* the filter-apply requests in flight whose controller has not been aborted
LiveDashReqs == {r \in DOMAIN dashReqs : r \notin aborted}

\* C1: last-edit-wins for filter-apply.  Once the KPIs on screen are those of the
\* most recently issued /api/dashboard request, a step that issues no new request
\* leaves the KPIs, the table and cachedChartData as they are: no response of an
\* earlier request is applied after the latest one.
C1_LastEditWins ==
    [][(kpis = dashIssued /\ dashIssued' = dashIssued)
        => (kpis' = kpis /\ dataTable' = dataTable
            /\ cachedChartData' = cachedChartData)]_vars

\* C2: in every reachable state at most one /api/dashboard request is live (in
\* flight and not aborted).
C2_AtMostOneLive == Cardinality(LiveDashReqs) <= 1

\* while a burst of change events on the debounced filter controls lasts, exactly
\* one timer is pending, it is the one the handle names, it calls applyFilters,
\* and the filter state is still the one the last event of the burst left
C3_BurstPending ==
    hist.burst =>
        /\ timers = {[id |-> filterDebounceTimer, fn |-> "applyFilters"]}
        /\ hist.burstFilters = CurrentFilters
        /\ dataLoaded

\* a timer that will call applyFilters is pending
ApplyPending(ts) == \E t \in ts : t.fn = "applyFilters"

\* C3: debounce coalescing.  For N >= 1 change events on the debounced filter
\* controls, each within the quiet period of the one before, with dataLoaded
\* true: while the events go on exactly one timer is pending and no step issues
\* a /api/dashboard fetch; the timer scheduled by the last event stays pending
\* until the step that ends it, and that step issues exactly one fetch, whose
\* body is the filter state the last event left.
C3_DebounceCoalescing ==
    /\ []C3_BurstPending
    /\ [][hist'.burst => dashIssued' = dashIssued]_vars
    /\ [][(ApplyPending(timers) /\ ~ApplyPending(timers'))
           => /\ dashIssued' = dashIssued + 1
              /\ DOMAIN dashReqs' \ DOMAIN dashReqs = {dashIssued'}
              /\ dashReqs'[dashIssued'].filters = CurrentFilters']_vars

\* C3 witness: the timer of a burst of two or more events has fired and its one
\* request, carrying the selection made by the last event, is in flight
C3_Witness ==
    /\ hist.coalesced
    /\ timers = {}
    /\ dashIssued \in DOMAIN dashReqs
    /\ dashReqs[dashIssued].filters = CurrentFilters
    /\ CurrentFilters.states = {"KL"}
    /\ CurrentFilters.year = "2024"

\* C4: a comparison-load response is applied to the comparison view only if no
\* later /api/comparison request has been issued since its request.
C4_StaleComparisonDiscarded ==
    [][comparisonView' # comparisonView => comparisonView'.kpis = compIssued]_vars

\* C5: the completion of a filter-apply request whose controller was aborted,
\* whether its response or its error arrives, leaves the KPI fields, the
\* insights, the table, the status badges and cachedChartData as they were.
C5_CancelledNeverMutates ==
    [][\A r \in aborted :
          r \notin aborted' => UNCHANGED <<dashViewVars, cachedChartData>>]_vars

\* C5 witness: the second request was aborted by the third and its catch and
\* finally have run, with the data of the first request still on screen
C5_Witness ==
    /\ kpis = 1
    /\ IsBundleOf(cachedChartData, 1)
    /\ dashIssued = 3
    /\ DOMAIN dashReqs = {3}
    /\ aborted = {}
    /\ microtasks = <<>>
    /\ pendingRequest = Null

\* C6: retry bound.  No /api/load attempt has a retry count above 3; a load
\* waits for a retry only after a timeout with fewer than 3 retries made; and a
\* load that failed by a timeout has made exactly 3 retries (4 attempts).
C6_RetryBound ==
    \A l \in DOMAIN loads :
        /\ loads[l].retryCount <= 3
        /\ loads[l].pc = "cooldown" => loads[l].retryCount < 3
        /\ (loads[l].pc = "failed" /\ loads[l].error = "AbortError")
               => loads[l].retryCount = 3

\* C6 witness: a load whose four attempts all timed out is Failed
C6_Witness ==
    \E l \in DOMAIN loads :
        /\ loads[l].pc = "failed"
        /\ loads[l].error = "AbortError"
        /\ loads[l].retryCount = 3

\* a load waits for a retry only after a timeout with fewer than 3 retries made,
\* and a load whose last failure was not a timeout is Failed
C7_NonTimeoutFails ==
    \A l \in DOMAIN loads :
        /\ loads[l].pc = "cooldown"
               => (loads[l].error = "AbortError" /\ loads[l].retryCount < 3)
        /\ loads[l].error \in {"TypeError", "Error"} => loads[l].pc = "failed"

\* C7: a bulk-load attempt is retried only after a timeout with fewer than 3
\* retries made; after any other failure (a network error, a success = false
\* body) the load is Failed at once, whatever its retry count, and a Failed load
\* issues no further /api/load request.
C7_RetryOnlyOnTimeout ==
    /\ []C7_NonTimeoutFails
    /\ [][\A l \in DOMAIN loads :
             loads[l].pc = "failed" => loads'[l] = loads[l]]_vars

\* C7 witness: a load that had already retried twice after timeouts failed at
\* once on a success = false body
C7_Witness ==
    \E l \in DOMAIN loads :
        /\ loads[l].pc = "failed"
        /\ loads[l].error = "Error"
        /\ loads[l].retryCount = 2

\* C8: cache coherence.  Switching the active chart type to a type present in
\* cachedChartData issues no on-demand request and renders exactly the series
\* that the last successfully applied /api/dashboard response carries for it.
C8_CacheCoherence ==
    [][(activeChart' # activeChart /\ activeChart' \in DOMAIN cachedChartData)
        => /\ chartIssued' = chartIssued
           /\ chartReqs' = chartReqs
           /\ dashIssued' = dashIssued
           /\ IF activeChart' = "map"
              THEN mapMarkers' = Series("dashboard", kpis, "map")
              ELSE chartDisplay' =
                       [kind |-> "plot", type |-> activeChart',
                        series |-> Series("dashboard", kpis, activeChart')]]_vars

\* C8 witness: the rbm tab shows the rbm series of the second response, and no
\* on-demand request was ever issued
C8_Witness ==
    /\ activeChart = "rbm"
    /\ kpis = 2
    /\ chartDisplay = [kind |-> "plot", type |-> "rbm",
                       series |-> Series("dashboard", 2, "rbm")]
    /\ chartIssued = 0

\* cachedChartData is the initial empty bundle or exactly the charts bundle of
\* the most recently applied successful /api/dashboard response
C9_CacheIsLastBundle ==
    IF kpis = 0 THEN cachedChartData = EmptyCache
    ELSE IsBundleOf(cachedChartData, kpis)

\* C9: in every reachable state cachedChartData is the initial empty bundle or
\* exactly the charts bundle of the most recently applied successful
\* /api/dashboard response, and only the step that applies such a response
\* (never a failed one, a tab switch, an on-demand chart fetch, a comparison
\* load, a bulk load, a reset or an export) changes it.
C9_CacheWholesale ==
    /\ []C9_CacheIsLastBundle
    /\ [][cachedChartData' # cachedChartData => kpis' # kpis]_vars

\* C9 witness: after the second response replaced a bundle that had a map
\* series by one that has none, an on-demand map fetch has drawn its markers
\* and the cache is still exactly the second bundle
C9_Witness ==
    /\ kpis = 2
    /\ DOMAIN cachedChartData = {"monthly", "rbm"}
    /\ mapMarkers.origin = "map"
    /\ chartIssued >= 1

\* C10: when an on-demand /api/map fetch succeeds, the returned data is stored in
\* the map slot of cachedChartData.
C10_MapFetchFillsCache ==
    [][\A c \in DOMAIN chartReqs :
          (/\ chartReqs[c].endpoint = "map"
           /\ c \notin DOMAIN chartReqs'
           /\ mapMarkers' = Series("map", c, "map"))
          => CacheGet(cachedChartData', "map") = Series("map", c, "map")]_vars

\* C11: while dataLoaded is false no /api/dashboard, /api/comparison or
\* /api/export request is issued, and dataLoaded becomes true only in the step
\* in which an /api/load response with success = true is received.
C11_NoOpsUntilLoaded ==
    /\ [][~dataLoaded'
           => /\ dashIssued' = dashIssued
              /\ compIssued' = compIssued
              /\ (exportsInFlight' => exportsInFlight)]_vars
    /\ [][(dataLoaded' /\ ~dataLoaded)
           => \E l \in DOMAIN loads :
                  loads[l].pc = "fetching" /\ loads'[l].pc = "applying"]_vars

\* C12: comparison atomicity.  In every reachable state the comparison KPI
\* cards, the comparison chart and the comparison table on screen were rendered
\* from one and the same /api/comparison response.
C12_ComparisonAtomicity ==
    /\ comparisonView.kpis = comparisonView.chart
    /\ comparisonView.chart = comparisonView.table

\* C12 witness: two overlapping requests were answered in reverse order and the
\* view shows the response to the first one, all three parts of it
C12_Witness ==
    /\ compIssued = 2
    /\ compReqs = <<>>
    /\ comparisonView = [kpis |-> 1, chart |-> 1, table |-> 1]

\* C13: idempotent reset.  Each call of resetFilters, the first and the one
\* right after it alike, leaves the default FilterSelection (no period type, no
\* year, fy or quarter, all six multi-selects empty) and triggers exactly one
\* filter-apply: the direct call issues one /api/dashboard request for that
\* selection, and no timer that would call applyFilters is left pending.
C13_IdempotentReset ==
    [][hist'.resets > hist.resets
        => /\ CurrentFilters' = ZeroFilters
           /\ ~ApplyPending(timers')
           /\ IF dataLoaded
              THEN /\ dashIssued' = dashIssued + 1
                   /\ dashReqs'[dashIssued'].filters = ZeroFilters
              ELSE dashIssued' = dashIssued]_vars

\* C13 witness: resetFilters ran twice in a row on loaded data; the second call
\* issued the third /api/dashboard request and left the default selection
C13_Witness ==
    /\ hist.resets = 2
    /\ dataLoaded
    /\ dashIssued = 3
    /\ dashIssued \in DOMAIN dashReqs
    /\ dashReqs[dashIssued].filters = ZeroFilters
    /\ CurrentFilters = ZeroFilters
    /\ ~ApplyPending(timers)

\* a /api/dashboard request that was not aborted ends in this step without its
\* response being applied: a network error, a bad status or success = false
DashboardFails ==
    \E r \in DOMAIN dashReqs :
        /\ r \notin aborted /\ r \notin aborted'
        /\ r \notin DOMAIN dashReqs'
        /\ kpis' # r

\* a /api/comparison request ends in this step without its response being drawn
ComparisonFails ==
    \E c \in DOMAIN compReqs :
        /\ c \notin DOMAIN compReqs'
        /\ comparisonView'.kpis # c

\* C14: every failure of a filter-apply, comparison-load or export request that
\* is not a cancellation (network error, bad status, success = false) shows an
\* error toast in the step that handles it.
C14_FailuresSurfaced ==
    /\ [][(DashboardFails \/ ComparisonFails) => toast' \in ErrorToasts]_vars
    /\ [][(exportsInFlight /\ ~exportsInFlight' /\ toast' # "exported")
           => toast' \in ErrorToasts]_vars

\* C15: a failed filter-apply (network error or success = false body) leaves the
\* KPI fields, the insights, the table, the status badges, the rendered chart,
\* the map markers and cachedChartData exactly as they were.
C15_FailedApplyKeepsScreen ==
    [][DashboardFails
        => UNCHANGED <<dashViewVars, chartDisplay, mapMarkers, cachedChartData>>]_vars

\* C15 witness: the first request was applied, the second was issued afterwards
\* and has failed, and the screen and the cache still hold the first response
C15_Witness ==
    /\ dashIssued = 2
    /\ dashReqs = <<>>
    /\ microtasks = <<>>
    /\ kpis = 1
    /\ dataTable = 1
    /\ IsBundleOf(cachedChartData, 1)
    /\ chartDisplay.series = Series("dashboard", 1, "monthly")

\* a timer that will call loadComparison is pending
ComparePending(ts) == \E t \in ts : t.fn = "loadComparison"

\* C16: each operation class has its own debounce schedule.  A step that
\* schedules a loadComparison timer leaves a pending applyFilters timer pending,
\* and a step that schedules an applyFilters timer leaves a pending
\* loadComparison timer pending.
C16_OwnDebounceSchedule ==
    /\ [][((\E t \in timers' \ timers : t.fn = "loadComparison")
            /\ ApplyPending(timers)) => ApplyPending(timers')]_vars
    /\ [][((\E t \in timers' \ timers : t.fn = "applyFilters")
            /\ ComparePending(timers)) => ComparePending(timers')]_vars

\* the periods the loaded options offer for a comparison type
AvailablePeriods(type) == Range(ComparisonPeriodOptions(type, filterOptions'))

\* C17: every /api/comparison request that is sent carries a period1 and a
\* period2 that are members of the loaded set of periods for the request's
\* comparison_type.
C17_PeriodsValidated ==
    [][\A c \in DOMAIN compReqs' \ DOMAIN compReqs :
          /\ compReqs'[c].period1 \in AvailablePeriods(compReqs'[c].comparison_type)
          /\ compReqs'[c].period2 \in AvailablePeriods(compReqs'[c].comparison_type)]_vars

\* C18: whenever the comparison period dropdowns are repopulated and at least
\* two periods exist for the current comparison type, the defaults are two
\* different periods; for the year and fy types, whose options are listed most
\* recent first, period1 is the second and period2 the first of them.
C18_DefaultPeriodsDiffer ==
    [][(periodOptions' # periodOptions /\ Len(periodOptions') >= 2)
        => /\ period1' # period2'
           /\ comparisonType' \in {"year", "fy"}
                  => (period1' = periodOptions'[2] /\ period2' = periodOptions'[1])]_vars

\* an /api/load response with success = true is handled in this step
LoadSucceeds ==
    \E l \in DOMAIN loads : loads[l].pc = "fetching" /\ loads'[l].pc = "applying"

\* C19: no /api/dashboard request exists while dataLoaded is false, and the step
\* that handles a successful /api/load response sets dataLoaded, replaces the
\* filter options and, with no user input in between, issues exactly one
\* /api/dashboard request, whose body is the selection as it is after the
\* options were replaced.
C19_LoadThenApply ==
    /\ [](dashIssued > 0 => dataLoaded)
    /\ [][LoadSucceeds
           => /\ dataLoaded'
              /\ filterOptions' \in OptionSets
              /\ dashIssued' = dashIssued + 1
              /\ DOMAIN dashReqs' \ DOMAIN dashReqs = {dashIssued'}
              /\ dashReqs'[dashIssued'].filters = CurrentFilters']_vars

\* C19 witness: the first load has just succeeded; its filter-apply is in flight
\* and nothing is on screen yet
C19_Witness ==
    /\ \E l \in DOMAIN loads : loads[l].pc = "applying" /\ loads[l].awaitReq = 1
    /\ dataLoaded
    /\ filterOptions = Options1
    /\ dashIssued = 1
    /\ DOMAIN dashReqs = {1}
    /\ kpis = 0

\* a bulk load ends in Failed in this step
LoadFails ==
    \E l \in DOMAIN loads : loads[l].pc = "fetching" /\ loads'[l].pc = "failed"

\* C20: when a bulk load ends in Failed, also one started by the refresh button
\* from the Ready state, the welcome screen is shown and the dashboard content
\* is not shown; a Failed load issues no further /api/load request, and a new
\* load starts only by a click on the enabled refresh button.
C20_FailedShowsWelcome ==
    /\ [][LoadFails => (~welcomeHidden' /\ dashboardHidden')]_vars
    /\ [][\A l \in DOMAIN loads :
             loads[l].pc = "failed" => loads'[l] = loads[l]]_vars
    /\ [][Len(loads') > Len(loads) => ~refreshBtnDisabled]_vars

\* the handler of a /api/dashboard response runs in this step
DashResponseStep ==
    /\ dashIssued' = dashIssued
    /\ \E r \in DOMAIN dashReqs : r \notin DOMAIN dashReqs'
\* the handler of a /api/comparison response runs in this step
CompResponseStep == \E c \in DOMAIN compReqs : c \notin DOMAIN compReqs'
\* the handler of a /api/map response runs in this step
MapResponseStep ==
    \E c \in DOMAIN chartReqs : chartReqs[c].endpoint = "map" /\ c \notin DOMAIN chartReqs'

\* C21: the response handlers of filter-apply, comparison-load and map-on-demand
\* write disjoint UI regions.  The map response writes the map markers and the
\* comparison response the comparison view, so no response of another class
\* changes these, and neither of the two changes the KPIs, the insights, the
\* table, the badges or the chart display a filter-apply response writes.
C21_DisjointRegions ==
    /\ [][DashResponseStep => UNCHANGED <<mapMarkers, comparisonView>>]_vars
    /\ [][CompResponseStep => UNCHANGED <<dashViewVars, chartDisplay, mapMarkers>>]_vars
    /\ [][MapResponseStep => UNCHANGED <<dashViewVars, chartDisplay, comparisonView>>]_vars

\* the form formatCurrency chooses for an amount of a paise
FormOf(a) ==
    IF a >= Crore * 100 THEN " Cr"
    ELSE IF a >= Lakh * 100 THEN " Lakh"
    ELSE IF a >= Thousand * 100 THEN " K"
    ELSE ""

Loading(l) == l \in DOMAIN loads /\ loads[l].pc \in {"fetching", "cooldown"}

\* C23: every bulk load terminates.  When every /api/load attempt ends, a load
\* that is in Loading eventually is Ready or Failed, and it makes at most
\* 1 + MaxRetries = 4 attempts.
C23_LoadTerminates ==
    /\ \A l \in 1..MaxLoads : Loading(l) ~> ~Loading(l)
    /\ [](\A l \in DOMAIN loads : loads[l].retryCount <= MaxRetries)

\* a load ended in Failed after its fourth attempt timed out
C23_Witness ==
    \E l \in DOMAIN loads :
        /\ loads[l].pc = "failed"
        /\ loads[l].retryCount = MaxRetries
        /\ loads[l].error = "AbortError"

\* the change handler of #periodType runs in this step
PeriodTypeChanged == periodType' # periodType /\ hist'.resets = 0

\* C24: a period-type change (with the data loaded) issues its /api/dashboard
\* request in the same event, carrying the filters as they are after the change,
\* and that request is the only one the change results in: no debounced
\* filter-apply stays scheduled that would fetch for it a second time.
C24_PeriodTypeAppliesOnce ==
    [][(PeriodTypeChanged /\ dataLoaded) =>
          /\ dashIssued' = dashIssued + 1
          /\ DOMAIN dashReqs' \ DOMAIN dashReqs = {dashIssued'}
          /\ dashReqs'[dashIssued'].filters = CurrentFilters'
          /\ ~ApplyPending(timers')]_vars

\* C25: while a bulk load is in Loading (an attempt in flight, a retry attempt
\* included, or cooling down before a retry) the refresh button is disabled, and at
\* most one /api/load request is outstanding.
C25_RefreshDisabledWhileLoading ==
    /\ (\E l \in DOMAIN loads : Loading(l)) => refreshBtnDisabled
    /\ Cardinality({l \in DOMAIN loads : loads[l].pc = "fetching"}) <= 1

\* C26: the filter loading indicator is hidden once the filter-apply it was shown
\* for is over, whatever its outcome: it is never shown while no /api/dashboard
\* request is in flight, no continuation is queued and no debounced filter-apply
\* is scheduled.
C26_IndicatorHiddenWhenOver ==
    (dashReqs = <<>> /\ microtasks = <<>> /\ ~ApplyPending(timers)) => ~filterLoading

\* C27: only the end of the most recently issued filter-apply request hides the
\* filter loading indicator: when the indicator is hidden while a request was in
\* flight, that request was the most recent one and it is over.
C27_IndicatorUntilLatestDone ==
    [][(filterLoading /\ ~filterLoading' /\ (dashReqs # <<>> \/ microtasks # <<>>)) =>
          (dashIssued \in DOMAIN dashReqs /\ dashIssued \notin DOMAIN dashReqs')]_vars

\* C28: whenever no on-demand /api/charts request is in flight and a chart tab is
\* active, the plot in the chart display is the one of the active chart.
C28_DisplayShowsActiveChart ==
    (/\ activeChart # "map"
     /\ \A c \in DOMAIN chartReqs : chartReqs[c].endpoint # "charts"
     /\ chartDisplay.kind = "plot") => chartDisplay.type = activeChart

\* the badge names no period, or the period of the sub-controls that the period
\* type of the filters uses
BadgeAgrees(badge, filters) ==
    \/ badge = <<"All Time">>
    \/ filters.period_type = "year" /\ badge = <<filters.year>>
    \/ filters.period_type = "fy" /\ badge = <<filters.fy>>
    \/ filters.period_type = "quarter" /\ badge = <<filters.quarter, filters.year>>

\* C29: the period badge written by a successful filter-apply agrees with the
\* period type of the filters applied: it reads 'All Time' when the period type
\* is none, and it shows no year, financial year or quarter of a sub-control the
\* period type does not use.
C29_BadgeAgreesWithPeriodType ==
    [][\A r \in DOMAIN dashReqs :
          (r \notin DOMAIN dashReqs' /\ kpis' = r) =>
              BadgeAgrees(periodBadge', dashReqs[r].filters)]_vars

\* C30: as long as the most recently issued filter-apply request is in flight,
\* pendingRequest is the controller of that request.
C30_HandleIsLatest ==
    (dashIssued \in DOMAIN dashReqs) => pendingRequest = dashIssued

====
